---- MODULE Spec2Model ----
(***************************************************************************)
(* Model of convert_rules.py: the per-provider pipeline process_provider   *)
(* (download, save the raw text, sort the lines into rule lists, write the *)
(* JSON file) and main, which runs one pipeline per rule provider and      *)
(* waits for all of them.                                                  *)
(*                                                                         *)
(* Text is a sequence of one-character strings, so that strip, startswith, *)
(* split and the slices of the source are computed character by character. *)
(***************************************************************************)
EXTENDS Naturals, Sequences, FiniteSets, TLC

(***************************************************************************)
(* Bounds of the model.                                                    *)
(***************************************************************************)
\* number of pieces a generated rule body is made of
MaxBody == 2
\* number of rule providers run together
MaxProviders == 2

(***************************************************************************)
(* The characters of the texts of the model, by code point.  A module can  *)
(* hold the characters below U+2000 other than U+0060: the model has       *)
(* U+0001 to U+00FF without U+0060, and U+1680.  Among them are all the    *)
(* characters below U+2000 that str.strip() removes and str.splitlines()   *)
(* ends a line at, and all those json.dumps has a short escape for.        *)
(***************************************************************************)
\* U+0001 to U+001F, the character of code point n at place n
C0Controls ==
    <<"", "", "", "", "", "", "", "",
      "\t", "\n", "", "\f", "\r", "", "", "",
      "", "", "", "", "", "", "", "",
      "", "", "", "", "", "", "">>

\* U+0020 to U+005F, the character of code point n at place n - 31
AsciiTo5F ==
    <<" ", "!", "\"", "#", "$", "%", "&", "'", "(", ")", "*", "+",
      ",", "-", ".", "/", "0", "1", "2", "3", "4", "5", "6", "7",
      "8", "9", ":", ";", "<", "=", ">", "?", "@", "A", "B", "C",
      "D", "E", "F", "G", "H", "I", "J", "K", "L", "M", "N", "O",
      "P", "Q", "R", "S", "T", "U", "V", "W", "X", "Y", "Z", "[",
      "\\", "]", "^", "_">>

\* U+0061 to U+007E, the character of code point n at place n - 96
AsciiFrom61 ==
    <<"a", "b", "c", "d", "e", "f", "g", "h", "i", "j", "k", "l",
      "m", "n", "o", "p", "q", "r", "s", "t", "u", "v", "w", "x",
      "y", "z", "{", "|", "}", "~">>

\* U+007F to U+00FF, the character of code point n at place n - 126
Latin1 ==
    <<"", "", "", "", "", "", "", "", "", "", "", "",
      "", "", "", "", "", "", "", "", "", "", "", "",
      "", "", "", "", "", "", "", "", "", " ", "¡", "¢",
      "£", "¤", "¥", "¦", "§", "¨", "©", "ª", "«", "¬", "­", "®",
      "¯", "°", "±", "²", "³", "´", "µ", "¶", "·", "¸", "¹", "º",
      "»", "¼", "½", "¾", "¿", "À", "Á", "Â", "Ã", "Ä", "Å", "Æ",
      "Ç", "È", "É", "Ê", "Ë", "Ì", "Í", "Î", "Ï", "Ð", "Ñ", "Ò",
      "Ó", "Ô", "Õ", "Ö", "×", "Ø", "Ù", "Ú", "Û", "Ü", "Ý", "Þ",
      "ß", "à", "á", "â", "ã", "ä", "å", "æ", "ç", "è", "é", "ê",
      "ë", "ì", "í", "î", "ï", "ð", "ñ", "ò", "ó", "ô", "õ", "ö",
      "÷", "ø", "ù", "ú", "û", "ü", "ý", "þ", "ÿ">>

\* U+1680
OghamSpace == " "

\* chr(n), for the code points of the model
chr(n) ==
    IF n <= 31 THEN C0Controls[n]
    ELSE IF n <= 95 THEN AsciiTo5F[n - 31]
    ELSE IF n <= 126 THEN AsciiFrom61[n - 96]
    ELSE IF n <= 255 THEN Latin1[n - 126]
    ELSE OghamSpace

\* ord(c), for the characters of the model
ord(c) ==
    IF c = OghamSpace THEN 5760
    ELSE CHOOSE n \in (1..255) \ {96} : chr(n) = c

(***************************************************************************)
(* Python string primitives used by process_provider.                      *)
(***************************************************************************)
\* the value of dict.get for a key that is absent
None == "<None>"

\* the characters str.strip() removes, those for which str.isspace() holds:
\* U+0009 to U+000D, U+001C to U+0020, U+0085, U+00A0, U+1680 (and, from
\* U+2000 on, U+2000 to U+200A, U+2028, U+2029, U+202F, U+205F, U+3000)
Whitespace == {chr(n) : n \in (9..13) \cup (28..32) \cup {133, 160, 5760}}

\* the characters str.splitlines() ends a line at: U+000A to U+000D, U+001C
\* to U+001E, U+0085 (and, from U+2000 on, U+2028, U+2029)
LineEnds == {chr(n) : n \in (10..13) \cup (28..30) \cup {133}}

\* the argument of clean_line[2:].strip("'\"")
QuoteChars == {"'", "\""}

RECURSIVE lstrip(_, _)
lstrip(s, chars) ==
    IF s # <<>> /\ Head(s) \in chars THEN lstrip(Tail(s), chars) ELSE s

RECURSIVE rstrip(_, _)
rstrip(s, chars) ==
    IF s # <<>> /\ s[Len(s)] \in chars
    THEN rstrip(SubSeq(s, 1, Len(s) - 1), chars)
    ELSE s

strip(s, chars) == rstrip(lstrip(s, chars), chars)

startswith(s, prefix) ==
    Len(s) >= Len(prefix) /\ SubSeq(s, 1, Len(prefix)) = prefix

\* s[n:]
slice_from(s, n) == SubSeq(s, n + 1, Len(s))

\* number of occurrences of the character c in s
RECURSIVE count(_, _)
count(s, c) ==
    IF s = <<>> THEN 0
    ELSE (IF Head(s) = c THEN 1 ELSE 0) + count(Tail(s), c)

\* len(s.split(sep)) for a one-character separator
split_len(s, sep) == count(s, sep) + 1

\* s.split(sep, 1)[1] for an s that contains sep
RECURSIVE split_first_rest(_, _)
split_first_rest(s, sep) ==
    IF s = <<>> THEN <<>>
    ELSE IF Head(s) = sep THEN Tail(s)
    ELSE split_first_rest(Tail(s), sep)

\* content.splitlines(): a line ends at a character of LineEnds, "\r\n"
\* being one line end; the text after the last line end is a line only when
\* it is not empty
RECURSIVE splitlines_from(_, _, _)
splitlines_from(s, cur, acc) ==
    IF s = <<>>
    THEN IF cur = <<>> THEN acc ELSE Append(acc, cur)
    ELSE IF Head(s) = "\r" /\ Len(s) >= 2 /\ s[2] = "\n"
    THEN splitlines_from(Tail(Tail(s)), <<>>, Append(acc, cur))
    ELSE IF Head(s) \in LineEnds
    THEN splitlines_from(Tail(s), <<>>, Append(acc, cur))
    ELSE splitlines_from(Tail(s), Append(cur, Head(s)), acc)

splitlines(s) == splitlines_from(s, <<>>, <<>>)

(***************************************************************************)
(* String literals of the source.                                          *)
(***************************************************************************)
PayloadHeader == <<"p", "a", "y", "l", "o", "a", "d", ":">>
ListItemPrefix == <<"-", " ">>
SuffixMarker == <<"+", ".">>
ProcessNamePrefix ==
    <<"P", "R", "O", "C", "E", "S", "S", "-", "N", "A", "M", "E", ",">>

Behaviors == {"domain", "ipcidr", "classical"}

(***************************************************************************)
(* The rule lists and the body of the loop over content.splitlines().      *)
(***************************************************************************)
EmptyRules ==
    [domain |-> <<>>, domain_suffix |-> <<>>,
     ip_cidr |-> <<>>, process_name |-> <<>>]

\* line.strip()
clean_line(line) == strip(line, Whitespace)

\* is_skipped without the comparison with 'payload:'
ForgetsPayloadHeader(clean) ==
    \/ clean = <<>>
    \/ startswith(clean, <<"#">>)

\* the condition of the `continue`
is_skipped(clean) ==
    \/ clean = <<>>
    \/ startswith(clean, <<"#">>)
    \/ clean = PayloadHeader

\* extract_rule removing one quote from each end, and only when both ends
\* carry one
StripsOneLayer(clean) ==
    IF startswith(clean, ListItemPrefix)
    THEN LET rest == slice_from(clean, 2)
         IN  IF Len(rest) >= 2 /\ Head(rest) \in QuoteChars
                              /\ rest[Len(rest)] \in QuoteChars
             THEN SubSeq(rest, 2, Len(rest) - 1)
             ELSE rest
    ELSE clean

\* extract_rule without the strip of the quotes
KeepsQuotes(clean) ==
    IF startswith(clean, ListItemPrefix) THEN slice_from(clean, 2) ELSE clean

\* the rule of a line that is not skipped
extract_rule(clean) ==
    IF startswith(clean, ListItemPrefix)
    THEN strip(slice_from(clean, 2), QuoteChars)
    ELSE clean

\* domain_rule counting the parts of the rule after its +. marker
CountsLabelsAfterMarker(rules, rule) ==
    IF startswith(rule, SuffixMarker)
    THEN IF split_len(slice_from(rule, 2), ".") > 2
         THEN [rules EXCEPT
                 !.domain_suffix = Append(@, slice_from(rule, 1)),
                 !.domain = Append(@, slice_from(rule, 2))]
         ELSE [rules EXCEPT !.domain_suffix = Append(@, slice_from(rule, 1))]
    ELSE [rules EXCEPT !.domain = Append(@, rule)]

\* domain_rule never adding the bare domain of a +. rule
SuffixOnly(rules, rule) ==
    IF startswith(rule, SuffixMarker)
    THEN [rules EXCEPT !.domain_suffix = Append(@, slice_from(rule, 1))]
    ELSE [rules EXCEPT !.domain = Append(@, rule)]

\* domain_rule filling domain from every +. rule, whatever its parts
ExpandsEverySuffix(rules, rule) ==
    IF startswith(rule, SuffixMarker)
    THEN [rules EXCEPT
            !.domain_suffix = Append(@, slice_from(rule, 1)),
            !.domain = Append(@, slice_from(rule, 2))]
    ELSE [rules EXCEPT !.domain = Append(@, rule)]

\* behavior == 'domain'
domain_rule(rules, rule) ==
    IF startswith(rule, SuffixMarker)
    THEN IF split_len(rule, ".") > 2
         THEN [rules EXCEPT
                 !.domain_suffix = Append(@, slice_from(rule, 1)),
                 !.domain = Append(@, slice_from(rule, 2))]
         ELSE [rules EXCEPT !.domain_suffix = Append(@, slice_from(rule, 1))]
    ELSE [rules EXCEPT !.domain = Append(@, rule)]

\* behavior == 'ipcidr'
ipcidr_rule(rules, rule) == [rules EXCEPT !.ip_cidr = Append(@, rule)]

\* classical_rule keeping the rules of other types, as domains
KeepsEveryClassicalRule(rules, rule) ==
    IF startswith(rule, ProcessNamePrefix)
    THEN [rules EXCEPT !.process_name = Append(@, split_first_rest(rule, ","))]
    ELSE [rules EXCEPT !.domain = Append(@, rule)]

\* behavior == 'classical'
classical_rule(rules, rule) ==
    IF startswith(rule, ProcessNamePrefix)
    THEN [rules EXCEPT !.process_name = Append(@, split_first_rest(rule, ","))]
    ELSE rules

\* dispatch taking the rules of an ipcidr provider for domain rules
CidrRulesAsDomains(rules, rule, behavior) ==
    IF behavior = "domain" THEN domain_rule(rules, rule)
    ELSE IF behavior = "ipcidr" THEN domain_rule(rules, rule)
    ELSE IF behavior = "classical" THEN classical_rule(rules, rule)
    ELSE rules

\* the if/elif chain on behavior; any other behavior adds nothing
dispatch(rules, rule, behavior) ==
    IF behavior = "domain" THEN domain_rule(rules, rule)
    ELSE IF behavior = "ipcidr" THEN ipcidr_rule(rules, rule)
    ELSE IF behavior = "classical" THEN classical_rule(rules, rule)
    ELSE rules

\* one iteration of the loop; the locals clean_line and rule are each
\* assigned once, then read
process_line(rules, line, behavior) ==
    LET body[clean \in {clean_line(line)}] ==
            IF is_skipped(clean) THEN rules
            ELSE LET put[rule \in {extract_rule(clean)}] ==
                         dispatch(rules, rule, behavior)
                 IN  put[extract_rule(clean)]
    IN  body[clean_line(line)]

\* the local rule after one iteration: a skipped line leaves it as it was
rule_after(rule, line) ==
    LET body[clean \in {clean_line(line)}] ==
            IF is_skipped(clean) THEN rule ELSE extract_rule(clean)
    IN  body[clean_line(line)]

\* the whole loop over a list of lines
RECURSIVE process_lines(_, _, _)
process_lines(rules, lines, behavior) ==
    IF lines = <<>> THEN rules
    ELSE process_lines(process_line(rules, Head(lines), behavior),
                       Tail(lines), behavior)

\* rules after the loop, from the downloaded text; content.splitlines() is
\* evaluated once, before the first iteration
transform(content, behavior) ==
    LET loop[lines \in {splitlines(content)}] ==
            process_lines(EmptyRules, lines, behavior)
    IN  loop[splitlines(content)]

(***************************************************************************)
(* Input lines.  A line is padding, an optional list marker, opening       *)
(* quotes, a body of at most MaxBody pieces, closing quotes and padding;   *)
(* the lines the documentation of the rule formats names are added.        *)
(***************************************************************************)
PlusExampleCom ==
    <<"+", ".", "e", "x", "a", "m", "p", "l", "e", ".", "c", "o", "m">>
PlusMailExampleCom ==
    <<"+", ".", "m", "a", "i", "l", ".", "e", "x", "a", "m", "p", "l", "e", ".", "c", "o", "m">>
PlusCom ==
    <<"+", ".", "c", "o", "m">>
ExampleOrg ==
    <<"e", "x", "a", "m", "p", "l", "e", ".", "o", "r", "g">>
PrivateCidr ==
    <<"1", "9", "2", ".", "1", "6", "8", ".", "0", ".", "0", "/", "1", "6">>
ProcessNameChrome ==
    <<"P", "R", "O", "C", "E", "S", "S", "-", "N", "A", "M", "E", ",", "c", "h", "r", "o", "m", "e", ".", "e", "x", "e">>
DomainExampleCom ==
    <<"D", "O", "M", "A", "I", "N", ",", "e", "x", "a", "m", "p", "l", "e", ".", "c", "o", "m">>
QuotedPlusExampleCom ==
    <<" ", " ", "-", " ", "'", "+", ".", "e", "x", "a", "m", "p", "l", "e", ".", "c", "o", "m", "'">>

PlusWithoutDot ==
    <<"+", "a", ".", "b">>

\* lines with the whitespace and the characters outside ASCII a line of
\* content.splitlines() can hold
NbspPadded == <<chr(160), "a", ".", "b", chr(160)>>
UnitSeparatorComment == <<chr(31), "#", " ", "c">>
OghamPadded == <<OghamSpace, "+", ".", "a", ".", "b", chr(31)>>
IdnDomain == <<chr(233), ".", "c", "o", "m">>
ControlsInside == <<"a", chr(8), chr(1), chr(127), "b">>
NbspAfterMarker == <<"-", " ", chr(160), "'", "a", "'", chr(160)>>
NbspProcessName ==
    <<"P", "R", "O", "C", "E", "S", "S", "-", "N", "A", "M", "E", ",",
      chr(160), chr(233)>>

WideLines ==
    {NbspPadded, UnitSeparatorComment, OghamPadded, IdnDomain,
     ControlsInside, NbspAfterMarker, NbspProcessName}

Fixtures ==
    {PlusWithoutDot, PlusExampleCom, PlusMailExampleCom, PlusCom, ExampleOrg, PrivateCidr, ProcessNameChrome, DomainExampleCom, QuotedPlusExampleCom}

\* whitespace before and after the line
Paddings == {<<<<>>, <<>>>>, <<<<" ">>, <<"\t">>>>}
Markers == {<<>>, ListItemPrefix, <<"-">>}
OpenQuotes == {<<>>, <<"'">>, <<"\"">>}
CloseQuotes == {<<>>, <<"'">>, <<"'", "\"">>}

BodyPieces ==
    {SuffixMarker, <<".">>, <<"a">>, <<"a", ".", "b">>, <<"#">>,
     <<",">>, <<" ">>, PayloadHeader, ProcessNamePrefix}

RECURSIVE Bodies(_)
Bodies(n) ==
    IF n = 0 THEN {<<>>}
    ELSE LET shorter == Bodies(n - 1)
         IN  shorter \cup {b \o p : b \in shorter, p \in BodyPieces}

GeneratedLines ==
    {p[1] \o m \o q1 \o b \o q2 \o p[2] :
        p \in Paddings, m \in Markers, q1 \in OpenQuotes,
        b \in Bodies(MaxBody), q2 \in CloseQuotes}

Lines == Fixtures \cup WideLines \cup GeneratedLines

\* a line processed before the line under study, so that lists are not empty
EarlierLine == <<"P", "R", "O", "C", "E", "S", "S", "-", "N", "A", "M", "E", ",", "x">>

(***************************************************************************)
(* json.dumps(output_json_obj, indent=2).                                  *)
(***************************************************************************)
RECURSIVE spaces(_)
spaces(n) == IF n = 0 THEN <<>> ELSE <<" ">> \o spaces(n - 1)

HexDigits ==
    <<"0", "1", "2", "3", "4", "5", "6", "7", "8", "9", "a", "b", "c", "d",
      "e", "f">>

\* '{0:04x}'.format(n)
hex4(n) ==
    <<HexDigits[((n \div 4096) % 16) + 1], HexDigits[((n \div 256) % 16) + 1],
      HexDigits[((n \div 16) % 16) + 1], HexDigits[(n % 16) + 1]>>

\* the characters json.dumps copies: U+0020 to U+007E but " and \
Copied == {chr(n) : n \in (32..126) \ {34, 92, 96}}

\* json.dumps with ensure_ascii, its default: the short escapes of " \ and
\* of U+0008, U+0009, U+000A, U+000C, U+000D, and \uXXXX for every other
\* character outside U+0020 to U+007E
json_char(c) ==
    IF c \in Copied THEN <<c>>
    ELSE IF c = "\"" THEN <<"\\", "\"">>
    ELSE IF c = "\\" THEN <<"\\", "\\">>
    ELSE IF c = chr(8) THEN <<"\\", "b">>
    ELSE IF c = "\t" THEN <<"\\", "t">>
    ELSE IF c = "\n" THEN <<"\\", "n">>
    ELSE IF c = "\f" THEN <<"\\", "f">>
    ELSE IF c = "\r" THEN <<"\\", "r">>
    ELSE <<"\\", "u">> \o hex4(ord(c))

RECURSIVE json_escape(_)
json_escape(s) ==
    IF s = <<>> THEN <<>> ELSE json_char(Head(s)) \o json_escape(Tail(s))

json_string(s) == <<"\"">> \o json_escape(s) \o <<"\"">>

RECURSIVE json_items(_, _)
json_items(items, depth) ==
    IF items = <<>> THEN <<>>
    ELSE <<"\n">> \o spaces(depth) \o json_string(Head(items))
         \o (IF Len(items) > 1 THEN <<",">> ELSE <<>>)
         \o json_items(Tail(items), depth)

\* json_list writing the last item first
SerializesBackwards(items, depth) ==
    IF items = <<>> THEN <<"[", "]">>
    ELSE <<"[">>
         \o json_items([k \in 1..Len(items) |-> items[Len(items) + 1 - k]],
                       depth + 2)
         \o <<"\n">> \o spaces(depth) \o <<"]">>

\* a list of strings whose opening bracket is indented by depth
json_list(items, depth) ==
    IF items = <<>> THEN <<"[", "]">>
    ELSE <<"[">> \o json_items(items, depth + 2)
         \o <<"\n">> \o spaces(depth) \o <<"]">>

KeyVersion ==
    <<"\"", "v", "e", "r", "s", "i", "o", "n", "\"", ":", " ">>
KeyRules ==
    <<"\"", "r", "u", "l", "e", "s", "\"", ":", " ">>
KeyDomain ==
    <<"\"", "d", "o", "m", "a", "i", "n", "\"", ":", " ">>
KeyDomainSuffix ==
    <<"\"", "d", "o", "m", "a", "i", "n", "_", "s", "u", "f", "f", "i",
      "x", "\"", ":", " ">>
KeyIpCidr ==
    <<"\"", "i", "p", "_", "c", "i", "d", "r", "\"", ":", " ">>
KeyProcessName ==
    <<"\"", "p", "r", "o", "c", "e", "s", "s", "_", "n", "a", "m", "e",
      "\"", ":", " ">>

\* the text written to the JSON file for the dict rules
json_dumps(rules) ==
    <<"{", "\n">> \o spaces(2) \o KeyVersion \o <<"1", ",", "\n">>
    \o spaces(2) \o KeyRules \o <<"[", "\n">>
    \o spaces(4) \o <<"{", "\n">>
    \o spaces(6) \o KeyDomain \o json_list(rules.domain, 6) \o <<",", "\n">>
    \o spaces(6) \o KeyDomainSuffix \o json_list(rules.domain_suffix, 6)
    \o <<",", "\n">>
    \o spaces(6) \o KeyIpCidr \o json_list(rules.ip_cidr, 6) \o <<",", "\n">>
    \o spaces(6) \o KeyProcessName \o json_list(rules.process_name, 6)
    \o <<"\n">>
    \o spaces(4) \o <<"}", "\n">> \o spaces(2) \o <<"]", "\n", "}">>

(***************************************************************************)
(* The catalog RAW_CONFIG.                                                 *)
(***************************************************************************)
DomainProviders ==
    {"reject", "icloud", "apple", "google", "proxy", "direct", "private",
     "gfw", "tld-not-cn"}
IpCidrProviders == {"telegramcidr", "cncidr", "lancidr"}
ClassicalProviders == {"applications"}

ProviderNames == DomainProviders \cup IpCidrProviders \cup ClassicalProviders

\* RAW_CONFIG with behavior: domain under every provider
EveryProviderDomain ==
    [name \in ProviderNames |->
        [url |-> "https://cdn.jsdelivr.net/gh/Loyalsoldier/clash-rules@release/"
                   \o name \o ".txt",
         behavior |-> "domain",
         path |-> <<"rule-set", name \o ".yaml">>]]

\* a path is the tuple of its parts: Path("./rule-set/x.yaml").parts
RAW_CONFIG ==
    [name \in ProviderNames |->
        [url |-> "https://cdn.jsdelivr.net/gh/Loyalsoldier/clash-rules@release/"
                   \o name \o ".txt",
         behavior |-> IF name \in DomainProviders THEN "domain"
                      ELSE IF name \in IpCidrProviders THEN "ipcidr"
                      ELSE "classical",
         path |-> <<"rule-set", name \o ".yaml">>]]

\* output_filename without the name: one JSON file for every provider
OneFileForAll(name) == <<"sing-box", "rules.json">>

\* Path(f"sing-box/{name}.json")
output_filename(name) == <<"sing-box", name \o ".json">>

\* Path.parent
parent(path) == path[1]

\* the providers the runs of the model are made of, one per behavior
SampleNames == {"reject", "telegramcidr", "applications"}

(***************************************************************************)
(* What the servers answer.                                                *)
(***************************************************************************)
\* payload:\n  - '+.a.b'\n  - 'c.d'\n
YamlText ==
    <<"p", "a", "y", "l", "o", "a", "d", ":", "\n", " ", " ", "-", " ",
      "'", "+", ".", "a", ".", "b", "'", "\n", " ", " ", "-", " ", "'",
      "c", ".", "d", "'", "\n">>
\* # x\r\nPROCESS-NAME,\xe9\x0c\xa01.0.0.0/8\x85
PlainText ==
    <<"#", " ", "x", "\r", "\n", "P", "R", "O", "C", "E", "S", "S", "-",
      "N", "A", "M", "E", ",", chr(233), "\f", chr(160), "1", ".", "0",
      ".", "0", ".", "0", "/", "8", chr(133)>>

Texts == {YamlText, PlainText}

\* session.get or raise_for_status raises aiohttp.ClientError
HttpError == "ClientError"
\* response.text() raises UnicodeDecodeError
BadEncoding == "UnicodeDecodeError"

(***************************************************************************)
(* State.                                                                  *)
(***************************************************************************)
VARIABLES
    \* the run of the script
    rule_providers,   \* name -> provider_info, a dict of url, behavior, path
    remote,           \* name -> the text its url serves, or what get raises
    disk_fault,       \* name -> the disk operation of its pipeline that fails
    main_pc,          \* position of the script: boot, gather, done, ...
    pc,               \* name -> position of process_provider(session, name, _)
    content,          \* name -> the local content
    output_json_str,  \* name -> the local output_json_str
    files,            \* path -> text of the file, for the files that exist
    dirs,             \* the directories that exist
    fetches,          \* name -> number of session.get calls made
    writes,           \* name -> number of files opened for writing, by kind
    out,              \* name -> the messages printed about it, in order
    \* the loop of process_provider over the lines of one text
    loop_behavior,    \* behavior of the provider
    loop_lines,       \* content.splitlines()
    loop_i,           \* number of lines processed so far
    loop_rules,       \* the dict rules
    loop_rule         \* the local rule

run_vars ==
    <<rule_providers, remote, disk_fault, main_pc, pc, content,
      output_json_str, files, dirs, fetches, writes, out>>

loop_vars == <<loop_behavior, loop_lines, loop_i, loop_rules, loop_rule>>

vars == <<run_vars, loop_vars>>

\* a local that no statement has assigned yet
Unbound == <<"<unbound>">>

\* no rule provider is being processed
RunIdle ==
    /\ rule_providers = <<>>
    /\ remote = <<>>
    /\ disk_fault = <<>>
    /\ main_pc = "idle"
    /\ pc = <<>>
    /\ content = <<>>
    /\ output_json_str = <<>>
    /\ files = <<>>
    /\ dirs = {}
    /\ fetches = <<>>
    /\ writes = <<>>
    /\ out = <<>>

\* no text is being processed line by line
LoopIdle ==
    /\ loop_behavior = "domain"
    /\ loop_lines = <<>>
    /\ loop_i = 0
    /\ loop_rules = EmptyRules
    /\ loop_rule = Unbound

(***************************************************************************)
(* The loop over the lines, one iteration per step.                        *)
(***************************************************************************)
\* texts of two and three documented lines, a line coming back among them
FixtureTexts ==
    {<<a, b>> : a \in Fixtures, b \in Fixtures}
      \cup {<<a, b, a>> : a \in Fixtures, b \in Fixtures}

\* texts of two lines, with every line end between the lines
SplitTexts ==
    {a \o e \o b :
        a \in {PlusExampleCom, NbspPadded, <<>>},
        e \in {<<c>> : c \in LineEnds} \cup {<<"\r", "\n">>},
        b \in {ExampleOrg, UnitSeparatorComment, ProcessNameChrome}}

LoopInputs ==
    {<<l>> : l \in Lines} \cup {<<EarlierLine, l>> : l \in Lines}
      \cup FixtureTexts \cup {splitlines(t) : t \in SplitTexts}

LoopInit ==
    /\ loop_behavior \in Behaviors
    /\ loop_lines \in LoopInputs
    /\ loop_i = 0
    /\ loop_rules = EmptyRules
    /\ loop_rule = Unbound
    /\ RunIdle

\* for line in content.splitlines(): ...
LoopStep ==
    /\ loop_i < Len(loop_lines)
    /\ loop_i' = loop_i + 1
    /\ loop_rules' = process_line(loop_rules, loop_lines[loop_i + 1], loop_behavior)
    /\ loop_rule' = rule_after(loop_rule, loop_lines[loop_i + 1])
    /\ UNCHANGED <<loop_behavior, loop_lines, run_vars>>

LoopNext == LoopStep

LoopSpec == LoopInit /\ [][LoopNext]_vars

(***************************************************************************)
(* process_provider: one step per run of the coroutine, from the await at  *)
(* which the event loop takes it up to the next await, at which it gives   *)
(* control back.  The position of a coroutine is the await it is suspended *)
(* at:                                                                     *)
(*   get         line 107, entering async with session.get(url)            *)
(*   text        line 109, await response.text()                           *)
(*   release     line 107, leaving the async with block                    *)
(*   open_raw    line 114, entering async with aiofiles.open(path, 'w')    *)
(*   write_raw   line 115, await f.write(content)                          *)
(*   close_raw   line 114, leaving the async with block                    *)
(*   open_json   line 165, entering async with aiofiles.open(...)          *)
(*   write_json  line 166, await f.write(output_json_str)                  *)
(*   close_json  line 165, leaving the async with block                    *)
(* An awaited call does its work when it is made and the coroutine waits   *)
(* for its result; a call that fails raises when it is made or when the    *)
(* coroutine is taken up again.                                            *)
(***************************************************************************)
\* provider_info.get(key)
get(info, key) == IF key \in DOMAIN info THEN info[key] ELSE None

\* is_incomplete looking at the url alone
ChecksUrlOnly(info) == "url" \notin DOMAIN info \/ info["url"] = ""

\* not all([url, behavior, path_str])
is_incomplete(info) ==
    \/ "url" \notin DOMAIN info \/ info["url"] = ""
    \/ "behavior" \notin DOMAIN info \/ info["behavior"] = ""
    \/ "path" \notin DOMAIN info \/ info["path"] = <<>>

\* f with key set to value, the key added when it is new
Put(f, key, value) ==
    [k \in DOMAIN f \cup {key} |-> IF k = key THEN value ELSE f[k]]

\* aiofiles.open(path, 'w'): the file is created or emptied
open_w(fs, path) == Put(fs, path, <<>>)

\* write without the await: the text never reaches the file
NeverWrites(fs, path, text) == fs

\* f.write(text) and the flush of the buffer: the file holds the text
write(fs, path, text) == Put(fs, path, text)

\* on_exception with the first except clause only: any other exception
\* leaves the coroutine
CatchesClientErrorOnly(exc) ==
    IF exc = "ClientError"
    THEN [pc |-> "failed", msg |-> <<"Error downloading">>]
    ELSE [pc |-> "raised", msg |-> <<>>]

\* on_exception sending the coroutine back to its first line after a failed
\* download
RetriesDownload(exc) ==
    IF exc = "ClientError"
    THEN [pc |-> "created", msg |-> <<"Error downloading">>]
    ELSE IF exc = "IOError"
    THEN [pc |-> "failed", msg |-> <<"Error writing file">>]
    ELSE [pc |-> "failed", msg |-> <<"An unexpected error occurred">>]

\* the except clauses: where the coroutine ends and what it prints
on_exception(exc) ==
    IF exc = "ClientError"
    THEN [pc |-> "failed", msg |-> <<"Error downloading">>]
    ELSE IF exc = "IOError"
    THEN [pc |-> "failed", msg |-> <<"Error writing file">>]
    ELSE [pc |-> "failed", msg |-> <<"An unexpected error occurred">>]

\* the positions at which a coroutine is suspended
Suspended ==
    {"get", "text", "release", "open_raw", "write_raw", "close_raw",
     "open_json", "write_json", "close_json"}

\* the positions at which a coroutine is suspended on its way out of an
\* async with block, CancelledError having been raised inside the block
Unwinding == {"cancel_release", "cancel_close_raw", "cancel_close_json"}

\* the event loop runs: main waits in gather, or has failed and
\* asyncio.run has not cancelled the tasks yet
Running == main_pc \in {"gather", "failed"}

\* the coroutine prints the messages and stops at the position
Goto(name, position, printed) ==
    /\ pc' = [pc EXCEPT ![name] = position]
    /\ out' = [out EXCEPT ![name] = @ \o printed]

\* the coroutine prints the messages, then a statement raises exc inside
\* the try block
Raise(name, printed, exc) ==
    Goto(name, on_exception(exc).pc, printed \o on_exception(exc).msg)

\* an awaited call that fails: it raises when it is made, or the coroutine
\* is suspended at the position and the call raises when it is taken up
Fail(name, position, printed, exc) ==
    \E now \in BOOLEAN :
        IF now THEN Raise(name, printed, exc)
        ELSE Goto(name, position, printed)

\* aiofiles.open(path, 'w') is called and awaited at the position
Open(name, path, fails, position, printed) ==
    IF fails
    THEN /\ UNCHANGED files
         /\ Fail(name, position, printed, "IOError")
    ELSE /\ files' = open_w(files, path)
         /\ Goto(name, position, printed)

\* the numbers of characters a disk that fails takes of the text
PartLengths(text) == 0 .. (Len(text) - 1)

\* f.write(text) is called and awaited at the position.  The file object is
\* the buffered text file of open(path, 'w'), and the texts of the model are
\* shorter than its buffer: the text stays in the buffer and the file is as
\* it was
Write(name, path, text, position) ==
    /\ UNCHANGED files
    /\ Goto(name, position, <<>>)

\* the file is closed on the way out of the async with block, awaited at the
\* position: the buffer is flushed.  A disk that fails takes a first part of
\* the text, and the close raises
Close(name, path, text, fails, position) ==
    IF fails
    THEN /\ \E k \in PartLengths(text) :
              files' = write(files, path, SubSeq(text, 1, k))
         /\ Fail(name, position, <<>>, "IOError")
    ELSE /\ files' = write(files, path, text)
         /\ Goto(name, position, <<>>)

\* the coroutine starts: the check of the three fields, then the call of
\* session.get(url)
Start(name) ==
    /\ Running
    /\ pc[name] = "created"
    /\ LET info == rule_providers[name]
       IN  IF is_incomplete(info)
           THEN /\ Goto(name, "skipped", <<"Skipping">>)
                /\ UNCHANGED fetches
           ELSE /\ fetches' = [fetches EXCEPT ![name] = @ + 1]
                /\ IF "url" \notin DOMAIN info
                   THEN Raise(name, <<"Processing">>, "TypeError")
                   ELSE IF remote[name].raises = HttpError
                   THEN Fail(name, "get", <<"Processing">>, HttpError)
                   ELSE Goto(name, "get", <<"Processing">>)
    /\ UNCHANGED <<rule_providers, remote, disk_fault, main_pc, content,
                   output_json_str, files, dirs, writes, loop_vars>>

\* session.get(url) has answered: response.raise_for_status(), then the call
\* of response.text().  An exception of session.get is caught at once, one
\* of raise_for_status or of response.text() leaves the async with block
\* first
Respond(name) ==
    /\ Running
    /\ pc[name] = "get"
    /\ IF remote[name].raises = HttpError
       THEN \E inside \in BOOLEAN :
               IF inside THEN Goto(name, "release", <<>>)
               ELSE Raise(name, <<>>, HttpError)
       ELSE IF remote[name].raises = BadEncoding
       THEN \E now \in BOOLEAN :
               Goto(name, IF now THEN "release" ELSE "text", <<>>)
       ELSE Goto(name, "text", <<>>)
    /\ UNCHANGED <<rule_providers, remote, disk_fault, main_pc, content,
                   output_json_str, files, dirs, fetches, writes,
                   loop_vars>>

\* content = await response.text(), then the way out of the async with
\* block of session.get
ReadText(name) ==
    /\ Running
    /\ pc[name] = "text"
    /\ content' = IF remote[name].raises = "none"
                  THEN [content EXCEPT ![name] = remote[name].text]
                  ELSE content
    /\ Goto(name, "release", <<>>)
    /\ UNCHANGED <<rule_providers, remote, disk_fault, main_pc,
                   output_json_str, files, dirs, fetches, writes,
                   loop_vars>>

\* the async with block of session.get is left: an exception raised in it is
\* caught; otherwise path.parent.mkdir(parents=True, exist_ok=True) and the
\* call of aiofiles.open(path, 'w')
Release(name) ==
    /\ Running
    /\ pc[name] = "release"
    /\ LET info == rule_providers[name]
       IN  IF remote[name].raises # "none"
           THEN /\ Raise(name, <<>>, remote[name].raises)
                /\ UNCHANGED <<files, dirs, writes>>
           ELSE IF "path" \notin DOMAIN info
           THEN /\ Raise(name, <<>>, "TypeError")
                /\ UNCHANGED <<files, dirs, writes>>
           ELSE IF disk_fault[name] = "mkdir"
           THEN /\ Raise(name, <<>>, "IOError")
                /\ UNCHANGED <<files, dirs, writes>>
           ELSE /\ dirs' = dirs \cup {parent(info["path"])}
                /\ writes' = [writes EXCEPT ![name].raw = @ + 1]
                /\ \E fails \in IF disk_fault[name] = "write_raw"
                                THEN BOOLEAN ELSE {FALSE} :
                     Open(name, info["path"], fails, "open_raw", <<>>)
    /\ UNCHANGED <<rule_providers, remote, disk_fault, main_pc, content,
                   output_json_str, fetches, loop_vars>>

\* aiofiles.open(path, 'w') has answered: the call of f.write(content)
OpenedRaw(name) ==
    /\ Running
    /\ pc[name] = "open_raw"
    /\ LET path == rule_providers[name]["path"]
       IN  IF path \notin DOMAIN files
           THEN Raise(name, <<>>, "IOError") /\ UNCHANGED files
           ELSE Write(name, path, content[name], "write_raw")
    /\ UNCHANGED <<rule_providers, remote, disk_fault, main_pc, content,
                   output_json_str, dirs, fetches, writes, loop_vars>>

\* f.write(content) has answered: the way out of the async with block
WroteRaw(name) ==
    /\ Running
    /\ pc[name] = "write_raw"
    /\ Close(name, rule_providers[name]["path"], content[name],
             disk_fault[name] = "write_raw", "close_raw")
    /\ UNCHANGED <<rule_providers, remote, disk_fault, main_pc, content,
                   output_json_str, dirs, fetches, writes, loop_vars>>

\* the close of the raw file has answered: an exception of it is caught;
\* otherwise the print, the loop over the lines and json.dumps, which do not
\* await, then the call of aiofiles.open(output_filename, 'w'); nothing
\* creates the directory
ClosedRaw(name) ==
    /\ Running
    /\ pc[name] = "close_raw"
    /\ IF disk_fault[name] = "write_raw"
       THEN /\ Raise(name, <<>>, "IOError")
            /\ UNCHANGED <<output_json_str, files, writes>>
       ELSE /\ \E rules \in {transform(content[name],
                                       get(rule_providers[name], "behavior"))} :
                 output_json_str' =
                   [output_json_str EXCEPT ![name] = json_dumps(rules)]
            /\ writes' = [writes EXCEPT ![name].json = @ + 1]
            /\ LET path == output_filename(name)
               IN  \E fails \in IF parent(path) \notin dirs THEN {TRUE}
                                ELSE IF disk_fault[name] = "write_json"
                                THEN BOOLEAN ELSE {FALSE} :
                       Open(name, path, fails, "open_json",
                            <<"Successfully downloaded">>)
    /\ UNCHANGED <<rule_providers, remote, disk_fault, main_pc, content,
                   dirs, fetches, loop_vars>>

\* aiofiles.open(output_filename, 'w') has answered: the call of
\* f.write(output_json_str)
OpenedJson(name) ==
    /\ Running
    /\ pc[name] = "open_json"
    /\ LET path == output_filename(name)
       IN  IF path \notin DOMAIN files
           THEN Raise(name, <<>>, "IOError") /\ UNCHANGED files
           ELSE Write(name, path, output_json_str[name], "write_json")
    /\ UNCHANGED <<rule_providers, remote, disk_fault, main_pc, content,
                   output_json_str, dirs, fetches, writes, loop_vars>>

\* f.write(output_json_str) has answered: the way out of the async with
\* block
WroteJson(name) ==
    /\ Running
    /\ pc[name] = "write_json"
    /\ Close(name, output_filename(name), output_json_str[name],
             disk_fault[name] = "write_json", "close_json")
    /\ UNCHANGED <<rule_providers, remote, disk_fault, main_pc, content,
                   output_json_str, dirs, fetches, writes, loop_vars>>

\* the close of the JSON file has answered: an exception of it is caught;
\* otherwise the two prints and the return
ClosedJson(name) ==
    /\ Running
    /\ pc[name] = "close_json"
    /\ IF disk_fault[name] = "write_json"
       THEN Raise(name, <<>>, "IOError")
       ELSE Goto(name, "done", <<"Successfully generated", "---">>)
    /\ UNCHANGED <<rule_providers, remote, disk_fault, main_pc, content,
                   output_json_str, files, dirs, fetches, writes,
                   loop_vars>>

(***************************************************************************)
(* The script: the two mkdir calls, then main.                             *)
(***************************************************************************)
\* where a coroutine that has returned stands
Returned == {"skipped", "done", "failed"}

\* all_returned satisfied by the first task that returns
ReturnsOnFirstCompleted(positions) ==
    \E name \in DOMAIN positions : positions[name] \in Returned

\* asyncio.gather(*tasks) has every result
all_returned(positions) ==
    \A name \in DOMAIN positions : positions[name] \in Returned

\* Path("./rule-set").mkdir(exist_ok=True), then
\* Path("./sing-box").mkdir(exist_ok=True), then asyncio.run(main()) up to
\* the await of gather; a mkdir that raises ends the script, the directory
\* made before it stays
Boot ==
    /\ main_pc = "boot"
    /\ \E made \in {{}, {"rule-set"}, {"rule-set", "sing-box"}} :
         /\ dirs' = dirs \cup made
         /\ main_pc' = IF "sing-box" \in made THEN "gather" ELSE "crashed"
    /\ UNCHANGED <<rule_providers, remote, disk_fault, pc, content,
                   output_json_str, files, fetches, writes, out, loop_vars>>

\* await asyncio.gather(*tasks): the first exception of a task is raised in
\* main, which ends with it while the other tasks go on; otherwise main
\* goes on when every task has returned
Gather ==
    IF \E name \in DOMAIN pc : pc[name] = "raised"
    THEN main_pc' = "failed"
    ELSE all_returned(pc) /\ main_pc' = "done"

\* asyncio.run, main having failed: cancel() is called on every task that
\* has not ended; each of them gets CancelledError when the event loop
\* takes it up
Cancel == main_pc' = "cancelling"

\* asyncio.run raises the exception of main when the cancelled tasks have
\* ended
Exit ==
    /\ \A name \in DOMAIN pc :
         pc[name] \notin Suspended \cup Unwinding \cup {"created"}
    /\ main_pc' = "crashed"

\* main from the await of gather, and asyncio.run after main
Main ==
    /\ main_pc \in {"gather", "failed", "cancelling"}
    /\ IF main_pc = "gather" THEN Gather
       ELSE IF main_pc = "failed" THEN Cancel
       ELSE Exit
    /\ UNCHANGED <<rule_providers, remote, disk_fault, pc, content,
                   output_json_str, files, dirs, fetches, writes, out,
                   loop_vars>>

\* the event loop takes up a task that asyncio.run has cancelled:
\* CancelledError is raised at the await the coroutine is suspended at, and
\* no except clause catches it.  Inside an async with block the way out of
\* the block is awaited first, and the file the block holds open is closed
\* there; a close that raises puts its exception, which the except clauses
\* catch, in the place of CancelledError
Cancelled(name) ==
    /\ main_pc = "cancelling"
    /\ pc[name] \in Suspended \cup Unwinding \cup {"created"}
    /\ IF pc[name] = "text"
       THEN Goto(name, "cancel_release", <<>>) /\ UNCHANGED files
       ELSE IF pc[name] = "write_raw"
       THEN LET fails == disk_fault[name] = "write_raw"
                path == rule_providers[name]["path"]
            IN  /\ \E k \in IF fails THEN PartLengths(content[name])
                               ELSE {Len(content[name])} :
                      files' = write(files, path, SubSeq(content[name], 1, k))
                /\ \E now \in BOOLEAN :
                      IF fails /\ now THEN Raise(name, <<>>, "IOError")
                      ELSE Goto(name, "cancel_close_raw", <<>>)
       ELSE IF pc[name] = "write_json"
       THEN LET fails == disk_fault[name] = "write_json"
                path == output_filename(name)
            IN  /\ \E k \in IF fails THEN PartLengths(output_json_str[name])
                               ELSE {Len(output_json_str[name])} :
                      files' = write(files, path,
                                     SubSeq(output_json_str[name], 1, k))
                /\ \E now \in BOOLEAN :
                      IF fails /\ now THEN Raise(name, <<>>, "IOError")
                      ELSE Goto(name, "cancel_close_json", <<>>)
       ELSE IF \/ pc[name] = "cancel_close_raw"
                    /\ disk_fault[name] = "write_raw"
               \/ pc[name] = "cancel_close_json"
                    /\ disk_fault[name] = "write_json"
       THEN Raise(name, <<>>, "IOError") /\ UNCHANGED files
       ELSE Goto(name, "cancelled", <<>>) /\ UNCHANGED files
    /\ UNCHANGED <<rule_providers, remote, disk_fault, main_pc, content,
                   output_json_str, dirs, fetches, writes, loop_vars>>

(***************************************************************************)
(* The runs: up to MaxProviders providers of the catalog; each has its     *)
(* catalog entry, or the entry without one field, and a server and a disk  *)
(* that work or fail at one place.                                         *)
(***************************************************************************)
Without(info, key) == [k \in DOMAIN info \ {key} |-> info[k]]

EntryFaults == {"no_url", "empty_url", "no_behavior", "no_path"}
ServerFaults == {HttpError, BadEncoding}
\* mkdir raises; the open of the raw file raises, or the close that flushes
\* it; the open of the JSON file raises, or the close that flushes it
DiskFaults == {"mkdir", "write_raw", "write_json"}

Scenarios ==
    {<<"ok", t>> : t \in Texts}
      \cup {<<f, YamlText>> : f \in EntryFaults \cup ServerFaults \cup DiskFaults}

entry_of(name, scenario) ==
    LET info == RAW_CONFIG[name]
    IN  IF scenario[1] = "no_url" THEN Without(info, "url")
        ELSE IF scenario[1] = "empty_url" THEN [info EXCEPT !["url"] = ""]
        ELSE IF scenario[1] = "no_behavior" THEN Without(info, "behavior")
        ELSE IF scenario[1] = "no_path" THEN Without(info, "path")
        ELSE info

\* the providers of a run, their entries, their servers and their disks
Providers ==
    \E names \in SUBSET SampleNames :
        /\ Cardinality(names) \in 1..MaxProviders
        /\ \E scenario \in [names -> Scenarios] :
             /\ rule_providers = [n \in names |-> entry_of(n, scenario[n])]
             /\ remote = [n \in names |->
                            [raises |-> IF scenario[n][1] \in ServerFaults
                                        THEN scenario[n][1] ELSE "none",
                             text |-> scenario[n][2]]]
             /\ disk_fault = [n \in names |->
                                IF scenario[n][1] \in DiskFaults
                                THEN scenario[n][1] ELSE "none"]
             /\ pc = [n \in names |-> "created"]
             /\ content = [n \in names |-> Unbound]
             /\ output_json_str = [n \in names |-> Unbound]
             /\ fetches = [n \in names |-> 0]
             /\ writes = [n \in names |-> [raw |-> 0, json |-> 0]]
             /\ out = [n \in names |-> <<>>]

\* the script is started in a directory without the two output directories
Init ==
    /\ Providers
    /\ main_pc = "boot"
    /\ files = <<>>
    /\ dirs = {}
    /\ LoopIdle

\* the event loop takes up the coroutine of a provider
Step(name) ==
    \/ Start(name)
    \/ Respond(name)
    \/ ReadText(name)
    \/ Release(name)
    \/ OpenedRaw(name)
    \/ WroteRaw(name)
    \/ ClosedRaw(name)
    \/ OpenedJson(name)
    \/ WroteJson(name)
    \/ ClosedJson(name)
    \/ Cancelled(name)

Next ==
    \/ Boot
    \/ Main
    \/ \E name \in DOMAIN pc : Step(name)

Spec == Init /\ [][Next]_vars

\* the runs on which termination is checked: a provider is healthy, is
\* skipped, or fails in one of the three except clauses, the write failure
\* being the last one a pipeline can meet
FairScenarios ==
    {<<f, YamlText>> :
        f \in {"ok", "no_url", HttpError, BadEncoding, "write_json"}}

FairInit ==
    /\ Init
    /\ \A name \in DOMAIN pc :
         \E s \in FairScenarios :
             /\ rule_providers[name] = entry_of(name, s)
             /\ remote[name].raises
                  = (IF s[1] \in ServerFaults THEN s[1] ELSE "none")
             /\ disk_fault[name]
                  = (IF s[1] \in DiskFaults THEN s[1] ELSE "none")
             /\ remote[name].text = s[2]

\* the event loop goes on as long as main or a task can take a step, and
\* every awaited call returns or raises
FairSpec == FairInit /\ [][Next]_vars /\ WF_vars(Next)

(***************************************************************************)
(* main called on its own, by a program that imports the module: the two   *)
(* mkdir calls under __main__ have not run, and each of the two output     *)
(* directories is there or not.                                            *)
(***************************************************************************)
MainInit ==
    /\ Providers
    /\ main_pc = "gather"
    /\ files = <<>>
    /\ dirs \in SUBSET {"rule-set", "sing-box"}
    /\ LoopIdle

MainNext ==
    \/ Main
    \/ \E name \in DOMAIN pc : Step(name)

MainSpec == MainInit /\ [][MainNext]_vars

(***************************************************************************)
(* The run over the whole catalog, as main loads it: every server answers  *)
(* and every disk works.  The event loop runs every task once, in its      *)
(* first turn, before it takes up any of them again; the answers of the    *)
(* providers of SampleNames then arrive and their pipelines go on to their *)
(* end, the other requests are still in flight.                            *)
(***************************************************************************)
\* config = yaml.safe_load(RAW_CONFIG); config.get('rule-providers', {})
CatalogInit ==
    /\ rule_providers = RAW_CONFIG
    /\ remote = [n \in DOMAIN RAW_CONFIG |->
                   [raises |-> "none",
                    text |-> IF n \in DomainProviders
                             THEN YamlText ELSE PlainText]]
    /\ disk_fault = [n \in DOMAIN RAW_CONFIG |-> "none"]
    /\ pc = [n \in DOMAIN RAW_CONFIG |-> "created"]
    /\ content = [n \in DOMAIN RAW_CONFIG |-> Unbound]
    /\ output_json_str = [n \in DOMAIN RAW_CONFIG |-> Unbound]
    /\ fetches = [n \in DOMAIN RAW_CONFIG |-> 0]
    /\ writes = [n \in DOMAIN RAW_CONFIG |-> [raw |-> 0, json |-> 0]]
    /\ out = [n \in DOMAIN RAW_CONFIG |-> <<>>]
    /\ main_pc = "boot"
    /\ files = <<>>
    /\ dirs = {}
    /\ LoopIdle

\* every task has had its first turn
AllStarted == \A name \in DOMAIN pc : pc[name] # "created"

CatalogNext ==
    \/ Boot
    \/ \E name \in DOMAIN pc : Start(name)
    \/ /\ AllStarted
       /\ \E name \in DOMAIN pc \cap SampleNames :
            \/ Respond(name)
            \/ ReadText(name)
            \/ Release(name)
            \/ OpenedRaw(name)
            \/ WroteRaw(name)
            \/ ClosedRaw(name)
            \/ OpenedJson(name)
            \/ WroteJson(name)
            \/ ClosedJson(name)

CatalogSpec == CatalogInit /\ [][CatalogNext]_vars

(***************************************************************************)
(* Vocabulary of the properties, stated on positions of a text rather than *)
(* by the recursions above.                                                *)
(***************************************************************************)
HasPrefix(s, p) == Len(s) >= Len(p) /\ \A k \in 1..Len(p) : s[k] = p[k]

DropFirst(s, n) == [k \in 1..(Len(s) - n) |-> s[k + n]]

Last(s) == s[Len(s)]

Parts(s, sep) == Cardinality({k \in 1..Len(s) : s[k] = sep}) + 1

\* s without the characters of chars at its two ends
Trimmed(s, chars) ==
    LET keep == {k \in 1..Len(s) : s[k] \notin chars}
    IN  IF keep = {} THEN <<>>
        ELSE SubSeq(s, CHOOSE a \in keep : \A k \in keep : a <= k,
                       CHOOSE b \in keep : \A k \in keep : b >= k)

LineDiscarded(line) ==
    LET t == Trimmed(line, Whitespace)
    IN  t = <<>> \/ t[1] = "#" \/ t = PayloadHeader

\* the step processes one more line
Iterates == loop_i' = loop_i + 1

\* the line that step processes
Line == loop_lines[loop_i + 1]

\* only the named lists change in the step, each by the given appended items
Appends(suffixes, domains, cidrs, names) ==
    /\ loop_rules'.domain_suffix = loop_rules.domain_suffix \o suffixes
    /\ loop_rules'.domain = loop_rules.domain \o domains
    /\ loop_rules'.ip_cidr = loop_rules.ip_cidr \o cidrs
    /\ loop_rules'.process_name = loop_rules.process_name \o names

DotExampleCom == DropFirst(PlusExampleCom, 1)
ExampleCom == DropFirst(PlusExampleCom, 2)

(***************************************************************************)
(* C1.  As stated: under domain behavior the line +.example.com appends    *)
(* .example.com to domain_suffix and appends nothing to domain.            *)
(***************************************************************************)
C1_AsStated ==
    [][(Iterates /\ loop_behavior = "domain" /\ Line = PlusExampleCom)
         => Appends(<<DotExampleCom>>, <<>>, <<>>, <<>>)]_vars

\* C1, amended: under domain behavior the line +.example.com appends
\* .example.com to domain_suffix and example.com to domain, and nothing to
\* the other two lists.
C1_PlusExampleCom ==
    [][(Iterates /\ loop_behavior = "domain" /\ Line = PlusExampleCom)
         => Appends(<<DotExampleCom>>, <<ExampleCom>>, <<>>, <<>>)]_vars

C1_Witness ==
    /\ loop_behavior = "domain"
    /\ loop_i = 2
    /\ loop_lines[2] = PlusExampleCom
    /\ loop_rules.domain_suffix = <<DotExampleCom>>
    /\ Len(loop_rules.domain) = 2
    /\ Last(loop_rules.domain) = ExampleCom

(***************************************************************************)
(* C2.  Under domain behavior a rule starting with +. is appended without  *)
(* its + to domain_suffix, and without its +. to domain exactly when the   *)
(* whole rule has more than 2 parts between dots; any other rule is        *)
(* appended as it is to domain only.                                       *)
(***************************************************************************)
C2_DomainRule ==
    [][(Iterates /\ loop_behavior = "domain" /\ ~LineDiscarded(Line))
         => IF HasPrefix(loop_rule', SuffixMarker)
            THEN IF Parts(loop_rule', ".") > 2
                 THEN Appends(<<DropFirst(loop_rule', 1)>>,
                              <<DropFirst(loop_rule', 2)>>, <<>>, <<>>)
                 ELSE Appends(<<DropFirst(loop_rule', 1)>>, <<>>, <<>>, <<>>)
            ELSE Appends(<<>>, <<loop_rule'>>, <<>>, <<>>)]_vars

\* the degenerate rule +. has been processed: domain_suffix got the lone dot
C2_Witness ==
    /\ loop_behavior = "domain"
    /\ loop_i = 2
    /\ loop_rule = SuffixMarker
    /\ loop_rules.domain_suffix = <<<<".">>>>
    /\ Len(loop_rules.domain) = 1

(***************************************************************************)
(* C6.  Under every behavior a line that, once trimmed, is empty, starts   *)
(* with # or is exactly payload: changes none of the four lists.           *)
(***************************************************************************)
C6_DiscardedLine ==
    [][(Iterates /\ LineDiscarded(Line)) => loop_rules' = loop_rules]_vars

\* an indented payload: header was processed after a line that added a rule
C6_Witness ==
    /\ loop_i = 2
    /\ loop_lines[2] = <<" ">> \o PayloadHeader \o <<"\t">>
    /\ loop_rules # EmptyRules

(***************************************************************************)
(* C7.  For every behavior and every rule text r that a bare line passes   *)
(* through unchanged (not empty, no whitespace or quote at either end, not *)
(* starting with # or with the list marker, not payload:), the list item   *)
(* - 'r', in single or double quotes and with or without indentation,      *)
(* changes the lists exactly as the bare line r does.                      *)
(***************************************************************************)
PlainRule(r) ==
    /\ r # <<>>
    /\ r[1] \notin Whitespace \cup QuoteChars \cup {"#"}
    /\ Last(r) \notin Whitespace \cup QuoteChars
    /\ ~HasPrefix(r, ListItemPrefix)
    /\ r # PayloadHeader

ListItem(indent, quote, r) ==
    indent \o ListItemPrefix \o <<quote>> \o r \o <<quote>>

C7_ListItemLikeBareLine ==
    (loop_i < Len(loop_lines) /\ PlainRule(Line))
      => \A indent \in {<<>>, <<" ", " ">>, <<"\t">>}, quote \in QuoteChars :
            process_line(loop_rules, ListItem(indent, quote, Line), loop_behavior)
              = process_line(loop_rules, Line, loop_behavior)

\* the list item   - '+.example.com' was processed under domain behavior and
\* left what the bare line leaves
C7_Witness ==
    /\ loop_behavior = "domain"
    /\ loop_i = 1
    /\ loop_lines = <<ListItem(<<" ", " ">>, "'", PlusExampleCom)>>
    /\ PlainRule(PlusExampleCom)
    /\ loop_rules = [EmptyRules EXCEPT !.domain_suffix = <<DotExampleCom>>,
                                       !.domain = <<ExampleCom>>]

(***************************************************************************)
(* C8.  As stated: the rule of a trimmed line starting with the list       *)
(* marker is the text after the marker with one layer of quotes removed,   *)
(* and only when both ends carry a quote; any other line is its own rule.  *)
(***************************************************************************)
OneLayerOff(x) ==
    IF Len(x) >= 2 /\ x[1] \in QuoteChars /\ Last(x) \in QuoteChars
    THEN SubSeq(x, 2, Len(x) - 1)
    ELSE x

C8_AsStated ==
    [][(Iterates /\ ~LineDiscarded(Line))
         => LET t == Trimmed(Line, Whitespace)
            IN  loop_rule' = IF HasPrefix(t, ListItemPrefix)
                             THEN OneLayerOff(DropFirst(t, 2))
                             ELSE t]_vars

\* C8, amended: the rule of a trimmed line starting with the list marker is
\* the text after the marker without any of the quote characters at its
\* start and at its end, however many there are and whether or not the
\* other end carries one; any other line is its own rule, quotes included.
C8_RuleOfLine ==
    [][(Iterates /\ ~LineDiscarded(Line))
         => LET t == Trimmed(Line, Whitespace)
            IN  loop_rule' = IF HasPrefix(t, ListItemPrefix)
                             THEN Trimmed(DropFirst(t, 2), QuoteChars)
                             ELSE t]_vars

\* the list item - 'a.b'" lost one quote in front and two at the end
C8_Witness ==
    /\ loop_i = 1
    /\ loop_lines = <<ListItemPrefix \o <<"'", "a", ".", "b", "'", "\"">>>>
    /\ loop_rule = <<"a", ".", "b">>

(***************************************************************************)
(* C9.  Under classical behavior a rule starting with PROCESS-NAME,        *)
(* appends what follows its first comma, later commas included, to         *)
(* process_name; any other rule changes no list.                           *)
(***************************************************************************)
AfterFirst(s, c) ==
    DropFirst(s, CHOOSE k \in 1..Len(s) :
                    s[k] = c /\ \A j \in 1..(k - 1) : s[j] # c)

C9_ClassicalRule ==
    [][(Iterates /\ loop_behavior = "classical" /\ ~LineDiscarded(Line))
         => IF HasPrefix(loop_rule', ProcessNamePrefix)
            THEN Appends(<<>>, <<>>, <<>>, <<AfterFirst(loop_rule', ",")>>)
            ELSE loop_rules' = loop_rules]_vars

\* the list item - 'PROCESS-NAME,,' was processed after PROCESS-NAME,x: the
\* second comma is what follows the first
C9_Witness ==
    /\ loop_behavior = "classical"
    /\ loop_i = 2
    /\ loop_lines[2] = ListItemPrefix \o <<"'">> \o ProcessNamePrefix \o <<",", "'">>
    /\ loop_rule = ProcessNamePrefix \o <<",">>
    /\ loop_rules.process_name = <<<<"x">>, <<",">>>>

(***************************************************************************)
(* Vocabulary of the properties of a run.                                  *)
(***************************************************************************)
Names == DOMAIN rule_providers

\* the entry lacks one of the three fields
EntryIncomplete(name) ==
    \E key \in {"url", "behavior", "path"} :
        \/ key \notin DOMAIN rule_providers[name]
        \/ rule_providers[name][key] = (IF key = "path" THEN <<>> ELSE "")

\* the fetch of the entry and every write of its pipeline succeed
Healthy(name) ==
    /\ ~EntryIncomplete(name)
    /\ remote[name].raises = "none"
    /\ disk_fault[name] = "none"

\* both files of the provider exist with their final texts
BothFilesWritten(name) ==
    LET path == rule_providers[name]["path"]
        json == output_filename(name)
    IN  /\ path \in DOMAIN files
        /\ files[path] = remote[name].text
        /\ json \in DOMAIN files
        /\ files[json] = json_dumps(transform(remote[name].text,
                                              rule_providers[name]["behavior"]))
        /\ Last(files[json]) = "}"

RunEnded == main_pc \in {"done", "failed"}

(***************************************************************************)
(* C3.  Fault isolation: when the run has ended and some pipeline has      *)
(* failed, every provider whose own fetch and writes succeed has its raw   *)
(* file and its complete JSON file.                                        *)
(***************************************************************************)
C3_FaultIsolation ==
    (RunEnded /\ \E failed \in Names : pc[failed] \in {"failed", "raised"})
      => \A name \in Names : Healthy(name) => BothFilesWritten(name)

\* a run has ended in which one pipeline failed on its disk and another
\* wrote both files
C3_Witness ==
    /\ main_pc = "done"
    /\ \E failed \in Names :
         pc[failed] = "failed" /\ disk_fault[failed] = "write_raw"
    /\ \E name \in Names :
         Healthy(name) /\ pc[name] = "done" /\ BothFilesWritten(name)

(***************************************************************************)
(* C4.  In every pipeline the raw text is on disk before the rule lists    *)
(* are built and before the JSON file is touched: once the pipeline is     *)
(* past the raw write, the JSON text is built or the JSON file exists, the *)
(* raw file holds the fetched text, and it still does after a failure of   *)
(* the JSON write.                                                         *)
(***************************************************************************)
C4_RawBeforeJson ==
    \A name \in Names :
        (\/ pc[name] \in {"open_json", "write_json", "close_json", "done"}
         \/ output_json_str[name] # Unbound
         \/ output_filename(name) \in DOMAIN files)
          => /\ rule_providers[name]["path"] \in DOMAIN files
             /\ files[rule_providers[name]["path"]] = remote[name].text

\* the close of the JSON file of a pipeline failed, the disk having taken
\* the first five characters of the JSON text, and its raw file is in place
C4_Witness ==
    \E name \in Names :
        /\ pc[name] = "failed"
        /\ disk_fault[name] = "write_json"
        /\ output_filename(name) \in DOMAIN files
        /\ files[output_filename(name)] = SubSeq(output_json_str[name], 1, 5)
        /\ Len(output_json_str[name]) > 5
        /\ files[rule_providers[name]["path"]] = remote[name].text

(***************************************************************************)
(* C5.  main goes past gather only when every pipeline has finished, been  *)
(* skipped or reported its failure, and, every awaited call returning or   *)
(* raising, a run that reached gather always gets there, whatever the      *)
(* number of pipelines that failed.                                        *)
(***************************************************************************)
AllSettled == \A name \in Names : pc[name] \in {"done", "skipped", "failed"}

C5_RunCompletes ==
    /\ [](main_pc = "done" => AllSettled)
    /\ (main_pc = "gather") ~> (main_pc = "done")

\* the run completed although every pipeline failed
C5_Witness ==
    /\ main_pc = "done"
    /\ Cardinality(Names) >= 2
    /\ \A name \in Names : pc[name] = "failed"

(***************************************************************************)
(* C10.  An entry without url, behavior or path is skipped and reported:   *)
(* no fetch is made for it, no file of it is written, the run does not     *)
(* fail, and the other pipelines end as they would without it.             *)
(***************************************************************************)
C10_IncompleteEntrySkipped ==
    \A name \in Names :
        EntryIncomplete(name)
          => /\ fetches[name] = 0
             /\ content[name] = Unbound
             /\ output_filename(name) \notin DOMAIN files
             /\ \A path \in DOMAIN files : Last(path) # name \o ".yaml"
             /\ main_pc # "failed"
             /\ pc[name] \in {"created", "skipped"}
             /\ pc[name] = "skipped" => out[name] = <<"Skipping">>
             /\ main_pc = "done"
                  => /\ pc[name] = "skipped"
                     /\ \A other \in Names :
                          Healthy(other) => BothFilesWritten(other)

\* a run has ended in which an entry without path was skipped and another
\* provider wrote both files
C10_Witness ==
    /\ main_pc = "done"
    /\ \E name \in Names :
         /\ "path" \notin DOMAIN rule_providers[name]
         /\ pc[name] = "skipped"
         /\ out[name] = <<"Skipping">>
    /\ \E other \in Names : Healthy(other) /\ BothFilesWritten(other)

(***************************************************************************)
(* C11.  As stated: the catalog main works on has 12 entries, with         *)
(* behavior domain for reject to tld-not-cn, ipcidr for telegramcidr,      *)
(* cncidr and lancidr, classical for applications.                         *)
(***************************************************************************)
StatedDomain ==
    {"reject", "icloud", "apple", "google", "proxy", "direct", "private",
     "gfw", "tld-not-cn"}
StatedIpCidr == {"telegramcidr", "cncidr", "lancidr"}
StatedClassical == {"applications"}

StatedMapping ==
    /\ Names = StatedDomain \cup StatedIpCidr \cup StatedClassical
    /\ \A name \in Names :
         rule_providers[name]["behavior"] =
           (IF name \in StatedDomain THEN "domain"
            ELSE IF name \in StatedIpCidr THEN "ipcidr"
            ELSE "classical")

C11_AsStated == Cardinality(Names) = 12 /\ StatedMapping

(***************************************************************************)
(* C11.  The catalog main works on has 13 entries, one per name, with      *)
(* behavior domain for the nine names reject to tld-not-cn, ipcidr for     *)
(* telegramcidr, cncidr and lancidr, classical for applications, and no    *)
(* step of the run changes it.                                             *)
(***************************************************************************)
C11_CatalogOfThirteen ==
    /\ [](Cardinality(Names) = 13 /\ StatedMapping)
    /\ [][rule_providers' = rule_providers]_vars

\* every task of the catalog has started and the pipelines of the three
\* behaviors have written their files
C11_Witness ==
    /\ main_pc = "gather"
    /\ Cardinality(DOMAIN pc) = 13
    /\ \A name \in DOMAIN pc : pc[name] # "created"
    /\ \A name \in SampleNames : pc[name] = "done"

(***************************************************************************)
(* Vocabulary of the properties of the four lists.                         *)
(***************************************************************************)
\* the rule a line stands for
RuleOf(line) ==
    LET t == Trimmed(line, Whitespace)
    IN  IF HasPrefix(t, ListItemPrefix)
        THEN Trimmed(DropFirst(t, 2), QuoteChars)
        ELSE t

\* under domain behavior the line carries a +. rule of more than 2 parts
Expansion(line) ==
    /\ loop_behavior = "domain"
    /\ ~LineDiscarded(line)
    /\ HasPrefix(RuleOf(line), SuffixMarker)
    /\ Parts(RuleOf(line), ".") > 2

IsPrefix(s, t) == Len(s) <= Len(t) /\ \A k \in 1..Len(s) : s[k] = t[k]

Total(rules) ==
    Len(rules.domain) + Len(rules.domain_suffix) + Len(rules.ip_cidr)
      + Len(rules.process_name)

(***************************************************************************)
(* C12.  Each iteration leaves the entries every list had, in place, and   *)
(* adds at most one entry over the four lists, except for an expansion     *)
(* line, which adds exactly one entry to domain_suffix and one to domain;  *)
(* so after n lines the lists hold at most n entries plus one per          *)
(* expansion line among them.                                              *)
(***************************************************************************)
C12_AppendOnly ==
    /\ [][Iterates
           => /\ IsPrefix(loop_rules.domain, loop_rules'.domain)
              /\ IsPrefix(loop_rules.domain_suffix, loop_rules'.domain_suffix)
              /\ IsPrefix(loop_rules.ip_cidr, loop_rules'.ip_cidr)
              /\ IsPrefix(loop_rules.process_name, loop_rules'.process_name)
              /\ IF Expansion(Line)
                 THEN /\ Len(loop_rules'.domain_suffix)
                           = Len(loop_rules.domain_suffix) + 1
                      /\ Len(loop_rules'.domain) = Len(loop_rules.domain) + 1
                      /\ Total(loop_rules') = Total(loop_rules) + 2
                 ELSE Total(loop_rules') <= Total(loop_rules) + 1]_vars
    /\ [](Total(loop_rules)
            <= loop_i + Cardinality({k \in 1..loop_i :
                                       Expansion(loop_lines[k])}))

\* two lines were processed, the second an expansion line: three entries
C12_Witness ==
    /\ loop_behavior = "domain"
    /\ loop_i = 2
    /\ Expansion(loop_lines[2])
    /\ ~Expansion(loop_lines[1])
    /\ Len(loop_rules.domain) = 2
    /\ Len(loop_rules.domain_suffix) = 1
    /\ Total(loop_rules) = 3

(***************************************************************************)
(* What a line gives to a list, and the strings a JSON text holds.         *)
(***************************************************************************)
Buckets == {"domain", "domain_suffix", "ip_cidr", "process_name"}

\* the entries the line gives to each list, under the behavior of the loop
Gives(line) ==
    IF LineDiscarded(line) THEN EmptyRules
    ELSE LET r == RuleOf(line)
         IN  IF loop_behavior = "domain"
             THEN IF HasPrefix(r, SuffixMarker)
                  THEN [EmptyRules EXCEPT
                          !.domain_suffix = <<DropFirst(r, 1)>>,
                          !.domain = IF Parts(r, ".") > 2
                                     THEN <<DropFirst(r, 2)>> ELSE <<>>]
                  ELSE [EmptyRules EXCEPT !.domain = <<r>>]
             ELSE IF loop_behavior = "ipcidr"
             THEN [EmptyRules EXCEPT !.ip_cidr = <<r>>]
             ELSE IF HasPrefix(r, ProcessNamePrefix)
             THEN [EmptyRules EXCEPT !.process_name = <<AfterFirst(r, ",")>>]
             ELSE EmptyRules

Entries(line, bucket) == Gives(line)[bucket]

\* the entries of the first n lines, those of an earlier line first
RECURSIVE EntriesUpTo(_)
EntriesUpTo(n) ==
    IF n = 0 THEN EmptyRules
    ELSE LET before == EntriesUpTo(n - 1)
             now == Gives(loop_lines[n])
         IN  [bucket \in Buckets |-> before[bucket] \o now[bucket]]

\* the first of the first n lines that gives the entry to the list
FirstLine(entry, bucket, n) ==
    CHOOSE k \in 1..n :
        /\ Entries(loop_lines[k], bucket) = <<entry>>
        /\ \A j \in 1..(k - 1) : Entries(loop_lines[j], bucket) # <<entry>>

\* the first place of the entry in the list
FirstPlace(entry, list) ==
    CHOOSE k \in 1..Len(list) :
        list[k] = entry /\ \A j \in 1..(k - 1) : list[j] # entry

\* the character an escape of a JSON string stands for
Escaped(c) ==
    IF c = "t" THEN "\t" ELSE IF c = "n" THEN "\n" ELSE IF c = "r" THEN "\r"
    ELSE IF c = "f" THEN "\f" ELSE IF c = "b" THEN chr(8)
    ELSE c

\* the value of a hexadecimal digit
Nibble(c) == CHOOSE n \in 0..15 : HexDigits[n + 1] = c

\* the character \uXXXX stands for, XXXX at positions k to k + 3
Numbered(text, k) ==
    chr(Nibble(text[k]) * 4096 + Nibble(text[k + 1]) * 256
          + Nibble(text[k + 2]) * 16 + Nibble(text[k + 3]))

\* the number of backslashes in a row right before position k
Backslashes(text, k) ==
    CHOOSE n \in 0..(k - 1) :
        /\ \A j \in 1..n : text[k - j] = "\\"
        /\ n = k - 1 \/ text[k - n - 1] # "\\"

\* the character at position k is written after a backslash that escapes it
IsEscaped(text, k) == Backslashes(text, k) % 2 = 1

\* the string a JSON text writes from position k up to position b
RECURSIVE Unescape(_, _, _)
Unescape(text, k, b) ==
    IF k >= b THEN <<>>
    ELSE IF text[k] # "\\" THEN <<text[k]>> \o Unescape(text, k + 1, b)
    ELSE IF text[k + 1] = "u"
    THEN <<Numbered(text, k + 2)>> \o Unescape(text, k + 6, b)
    ELSE <<Escaped(text[k + 1])>> \o Unescape(text, k + 2, b)

\* the string written between the quotes at positions a and b is s
IsDecoded(text, a, b, s) == Unescape(text, a + 1, b) = s

\* the positions of the quotes that open and close the strings of a text
QuotesOf(text) ==
    LET IsQuote(k) == text[k] = "\"" /\ ~IsEscaped(text, k)
    IN  SelectSeq([k \in 1..Len(text) |-> k], IsQuote)

\* the strings of a JSON text, in the order of the text, are those of the
\* sequence strings
HoldsStrings(text, strings) ==
    \A quotes \in {QuotesOf(text)} :
        /\ Len(quotes) = 2 * Len(strings)
        /\ \A i \in 1..Len(strings) :
             IsDecoded(text, quotes[2 * i - 1], quotes[2 * i], strings[i])

Chars_version == <<"v", "e", "r", "s", "i", "o", "n">>
Chars_rules == <<"r", "u", "l", "e", "s">>
Chars_domain == <<"d", "o", "m", "a", "i", "n">>
Chars_domain_suffix ==
    <<"d", "o", "m", "a", "i", "n", "_", "s", "u", "f", "f", "i", "x">>
Chars_ip_cidr == <<"i", "p", "_", "c", "i", "d", "r">>
Chars_process_name ==
    <<"p", "r", "o", "c", "e", "s", "s", "_", "n", "a", "m", "e">>

\* the strings of the JSON text of the four lists: each key, then its list
\* in the order of the list
StringsInListOrder(rules) ==
    <<Chars_version, Chars_rules, Chars_domain>> \o rules.domain
      \o <<Chars_domain_suffix>> \o rules.domain_suffix
      \o <<Chars_ip_cidr>> \o rules.ip_cidr
      \o <<Chars_process_name>> \o rules.process_name

(***************************************************************************)
(* C13.  After every number of lines each list holds the entries of these  *)
(* lines with the entry of an earlier line before that of a later one, so  *)
(* that of two different entries of a list the one whose rule appears      *)
(* first in the text stands first; and after the last line of a text of    *)
(* several lines the JSON text of the lists holds the entries of each list *)
(* in the order of the list.                                               *)
(***************************************************************************)
C13_InputOrder ==
    /\ loop_rules = EntriesUpTo(loop_i)
    /\ \A bucket \in Buckets :
         \A a \in 1..Len(loop_rules[bucket]), b \in 1..Len(loop_rules[bucket]) :
             LET e == loop_rules[bucket][a]
                 f == loop_rules[bucket][b]
             IN  e # f
                   => (FirstPlace(e, loop_rules[bucket])
                         < FirstPlace(f, loop_rules[bucket])
                       <=> FirstLine(e, bucket, loop_i)
                             < FirstLine(f, bucket, loop_i))
    /\ (loop_i = Len(loop_lines) /\ loop_i >= 2)
         => \A text \in {json_dumps(loop_rules)},
               strings \in {StringsInListOrder(loop_rules)} :
               HoldsStrings(text, strings)

\* the text +.mail.example.com, example.org, +.mail.example.com was processed
\* under domain behavior: domain holds the three entries in this order
C13_Witness ==
    /\ loop_behavior = "domain"
    /\ loop_i = 3
    /\ loop_lines = <<PlusMailExampleCom, ExampleOrg, PlusMailExampleCom>>
    /\ loop_rules.domain
         = <<DropFirst(PlusMailExampleCom, 2), ExampleOrg,
             DropFirst(PlusMailExampleCom, 2)>>
    /\ loop_rules.domain_suffix
         = <<DropFirst(PlusMailExampleCom, 1), DropFirst(PlusMailExampleCom, 1)>>

(***************************************************************************)
(* C14.  No retries: a provider is fetched at most once and each of its    *)
(* two files is opened for writing at most once in a run, and from the     *)
(* call that fails on, be it the fetch, the decoding, the open of a file   *)
(* or the close that flushes what was written, no step fetches the         *)
(* provider again or opens or changes a file of it: its pipeline only goes *)
(* on to report the failure and stays there.                               *)
(***************************************************************************)
FilesOf(name) ==
    {output_filename(name)}
      \cup (IF "path" \in DOMAIN rule_providers[name]
            THEN {rule_providers[name]["path"]} ELSE {})

\* the failure of the pipeline has begun: the request has been sent to a
\* server whose answer fails or cannot be decoded, or the open or the close
\* that fails has been called and the coroutine is suspended at it, or the
\* pipeline has reported the failure
HasFailed(name) ==
    \/ pc[name] = "failed"
    \/ pc[name] \in {"get", "text", "release"} /\ remote[name].raises # "none"
    \/ pc[name] = "open_raw"
         /\ rule_providers[name]["path"] \notin DOMAIN files
    \/ pc[name] = "close_raw" /\ disk_fault[name] = "write_raw"
    \/ pc[name] = "open_json" /\ output_filename(name) \notin DOMAIN files
    \/ pc[name] = "close_json" /\ disk_fault[name] = "write_json"

C14_NoRetries ==
    /\ [](\A name \in Names :
            /\ fetches[name] <= 1
            /\ writes[name].raw <= 1
            /\ writes[name].json <= 1)
    /\ [][\A name \in Names :
            HasFailed(name)
              => /\ HasFailed(name)'
                 /\ pc[name] = "failed" => pc'[name] = "failed"
                 /\ fetches'[name] = fetches[name]
                 /\ writes'[name] = writes[name]
                 /\ \A path \in FilesOf(name) :
                      /\ path \in DOMAIN files' <=> path \in DOMAIN files
                      /\ path \in DOMAIN files => files'[path] = files[path]]_vars

\* the run has ended; one pipeline failed on its fetch and wrote nothing,
\* another failed on its JSON write after one fetch and one raw write, a
\* first part of the JSON text being left in the file
C14_Witness ==
    /\ main_pc = "done"
    /\ \E name \in Names :
         /\ remote[name].raises = HttpError
         /\ pc[name] = "failed"
         /\ fetches[name] = 1
         /\ writes[name] = [raw |-> 0, json |-> 0]
    /\ \E name \in Names :
         /\ disk_fault[name] = "write_json"
         /\ pc[name] = "failed"
         /\ fetches[name] = 1
         /\ writes[name] = [raw |-> 1, json |-> 1]
         /\ output_filename(name) \in DOMAIN files
         /\ Len(files[output_filename(name)]) > 1

(***************************************************************************)
(* C15.  As stated: when main runs without the directory sing-box, every   *)
(* provider whose entry is complete, whose fetch succeeds and whose disk   *)
(* works ends with its JSON file written and reports no failure.           *)
(***************************************************************************)
C15_AsStated ==
    (main_pc = "done" /\ "sing-box" \notin dirs)
      => \A name \in Names :
            Healthy(name)
              => /\ pc[name] = "done"
                 /\ output_filename(name) \in DOMAIN files
                 /\ files[output_filename(name)] = output_json_str[name]

\* main has run without the directory sing-box: a provider whose fetch and
\* raw write succeeded has its raw file, no JSON file, and the report of a
\* write failure
C15_Witness ==
    /\ main_pc = "done"
    /\ "sing-box" \notin dirs
    /\ \E name \in Names :
         /\ Healthy(name)
         /\ pc[name] = "failed"
         /\ writes[name] = [raw |-> 1, json |-> 1]
         /\ files[rule_providers[name]["path"]] = remote[name].text
         /\ output_filename(name) \notin DOMAIN files
         /\ out[name]
              = <<"Processing", "Successfully downloaded", "Error writing file">>

(***************************************************************************)
(* C16.  The pipelines of two providers have no file in common; a step     *)
(* that is not a step of the pipeline of a provider leaves the locals, the *)
(* counters and the files of that provider as they are; and when the run   *)
(* is over the files of each provider are what its own entry, its own      *)
(* server and its own disk make them, whatever the order of the steps:     *)
(* both files in full for a healthy provider, no file after a failed       *)
(* fetch, and after a failed write the files written before it, the file   *)
(* of the failed write being absent or holding a first part of its text.   *)
(***************************************************************************)
Untouched(name) ==
    /\ content'[name] = content[name]
    /\ output_json_str'[name] = output_json_str[name]
    /\ fetches'[name] = fetches[name]
    /\ writes'[name] = writes[name]
    /\ out'[name] = out[name]
    /\ \A path \in FilesOf(name) :
         /\ path \in DOMAIN files' <=> path \in DOMAIN files
         /\ path \in DOMAIN files => files'[path] = files[path]

AbsentOrPart(path, text) ==
    path \in DOMAIN files
      => /\ Len(files[path]) < Len(text)
         /\ HasPrefix(text, files[path])

FinalFiles(name) ==
    LET json == output_filename(name)
    IN  IF Healthy(name) THEN BothFilesWritten(name)
        ELSE IF disk_fault[name] = "write_json"
        THEN /\ files[rule_providers[name]["path"]] = remote[name].text
             /\ AbsentOrPart(json, output_json_str[name])
        ELSE IF disk_fault[name] = "write_raw"
        THEN /\ AbsentOrPart(rule_providers[name]["path"], remote[name].text)
             /\ json \notin DOMAIN files
        ELSE \A path \in FilesOf(name) : path \notin DOMAIN files

C16_PrivatePipelines ==
    /\ [](/\ \A a \in Names, b \in Names :
               a # b => FilesOf(a) \cap FilesOf(b) = {}
          /\ DOMAIN files \subseteq UNION {FilesOf(name) : name \in Names}
          /\ \A name \in Names :
               output_json_str[name] # Unbound
                 => output_json_str[name]
                      = json_dumps(transform(remote[name].text,
                                             rule_providers[name]["behavior"]))
          /\ main_pc = "done" => \A name \in Names : FinalFiles(name))
    /\ [][\A name \in Names : pc'[name] = pc[name] => Untouched(name)]_vars

\* the run is over: two healthy providers served different texts have their
\* four files, each JSON file made from the text of its own provider
C16_Witness ==
    /\ main_pc = "done"
    /\ \E a \in Names, b \in Names :
         /\ a # b
         /\ Healthy(a) /\ Healthy(b)
         /\ remote[a].text # remote[b].text
         /\ BothFilesWritten(a) /\ BothFilesWritten(b)
         /\ files[output_filename(a)] # files[output_filename(b)]
    /\ Cardinality(DOMAIN files) = 4

(***************************************************************************)
(* C17.  After every number of lines, under domain behavior ip_cidr and    *)
(* process_name are empty, under ipcidr behavior ip_cidr holds the rule of *)
(* every line that is not discarded, as it is, and the other three lists   *)
(* are empty, under classical behavior the three lists other than          *)
(* process_name are empty; and after the last line the JSON text of the    *)
(* lists has the four keys, each empty list written as [].                 *)
(***************************************************************************)
\* the text holds the pattern at some position
Contains(text, pattern) ==
    \E p \in {pattern} :
        \E k \in 1..(Len(text) - Len(p) + 1) :
            /\ text[k] = p[1]
            /\ \A j \in 2..Len(p) : text[k + j - 1] = p[j]

\* the key is in the text, followed by [] when the list is empty and by an
\* opening bracket and a new line when it is not
KeyWritten(text, key, list) ==
    Contains(text, <<"\"">> \o key \o <<"\"", ":", " ", "[">>
                     \o (IF list = <<>> THEN <<"]">> ELSE <<"\n">>))

\* the lines processed so far that are not discarded
KeptLines ==
    LET Kept(line) == ~LineDiscarded(line)
    IN  SelectSeq(SubSeq(loop_lines, 1, loop_i), Kept)

C17_BucketsOfBehavior ==
    /\ loop_behavior = "domain"
         => loop_rules.ip_cidr = <<>> /\ loop_rules.process_name = <<>>
    /\ loop_behavior = "ipcidr"
         => /\ loop_rules.domain = <<>>
            /\ loop_rules.domain_suffix = <<>>
            /\ loop_rules.process_name = <<>>
            /\ loop_rules.ip_cidr
                 = [k \in 1..Len(KeptLines) |-> RuleOf(KeptLines[k])]
    /\ loop_behavior = "classical"
         => /\ loop_rules.domain = <<>>
            /\ loop_rules.domain_suffix = <<>>
            /\ loop_rules.ip_cidr = <<>>
    /\ loop_i = Len(loop_lines)
         => \A text \in {json_dumps(loop_rules)} :
               /\ KeyWritten(text, Chars_domain, loop_rules.domain)
               /\ KeyWritten(text, Chars_domain_suffix, loop_rules.domain_suffix)
               /\ KeyWritten(text, Chars_ip_cidr, loop_rules.ip_cidr)
               /\ KeyWritten(text, Chars_process_name, loop_rules.process_name)

\* under ipcidr behavior a CIDR and the list item - '+.example.com' were
\* processed: both rules are in ip_cidr as they are, nothing is elsewhere
C17_Witness ==
    /\ loop_behavior = "ipcidr"
    /\ loop_i = 2
    /\ loop_lines = <<PrivateCidr, QuotedPlusExampleCom>>
    /\ loop_rules = [EmptyRules EXCEPT !.ip_cidr = <<PrivateCidr, PlusExampleCom>>]
    /\ Contains(json_dumps(loop_rules), KeyDomainSuffix \o <<"[", "]">>)

====
